---- MODULE Spec2Model ----
(***************************************************************************)
(* Model of the interactive menu of claude-history.py: the raw key reader  *)
(* InteractiveMenu.get_key and the paginated controller                    *)
(* InteractiveMenu.display_menu, driven by a terminal input stream.        *)
(***************************************************************************)
EXTENDS Integers, Sequences, FiniteSets, TLC

(* ---- bounds ---- *)
MaxItems == 5
MaxPerPage == 3
MaxPending == 1

(* ---- bytes and key strings compared by display_menu ---- *)
ESC == 27
KeyUp == <<27, 91, 65>>
KeyDown == <<27, 91, 66>>
KeyPageUp == <<27, 91, 53, 126>>
KeyPageDown == <<27, 91, 54, 126>>
KeyCR == <<13>>
KeyLF == <<10>>
KeyQ == <<113>>
KeyCtrlC == <<3>>

(* Physical keys of the terminal and the bytes each one sends. *)
PhysKeys == {"up", "down", "pgup", "pgdn", "cr", "lf", "q", "ctrlc", "x"}

Bytes(k) ==
  CASE k = "up" -> KeyUp
    [] k = "down" -> KeyDown
    [] k = "pgup" -> KeyPageUp
    [] k = "pgdn" -> KeyPageDown
    [] k = "cr" -> KeyCR
    [] k = "lf" -> KeyLF
    [] k = "q" -> KeyQ
    [] k = "ctrlc" -> KeyCtrlC
    [] OTHER -> <<120>>

NoTag == [k |-> "none", i |-> 0]
NoKey == <<-1>>
NoResult == -1

VARIABLES
  pc,              \* "caller", "loop", "read1", "read2", "exited"
  argPaginate,     \* paginate argument of the current display_menu call
  argPerPage,      \* items_per_page argument of the current call
  total_items,
  paginate,
  total_pages,
  items_per_page,
  selected_index,
  current_page,
  stream,          \* bytes waiting on stdin, each tagged with the key that sent it
  closed,          \* stdin is at end of input
  term,            \* terminal mode
  old_settings,    \* mode captured by tcgetattr in get_key
  lastKey,         \* string returned by the last completed get_key
  firstTag,        \* tag of the first byte consumed by the last get_key
  prev,            \* selected_index and current_page before the last dispatch
  result,          \* value returned by the last display_menu, NoResult if none
  exit,            \* "none", "quit", "interrupt", "error"
  script           \* keys pressed so far in a scripted run, <<>> otherwise

vars == <<pc, argPaginate, argPerPage, total_items, paginate, total_pages,
          items_per_page, selected_index, current_page, stream, closed, term,
          old_settings, lastKey, firstTag, prev, result, exit, script>>

Min(a, b) == IF a < b THEN a ELSE b

(* ---- display_menu, lines 68-74: effective pagination ---- *)
SetupGE(pg, n, ipp) ==
  IF pg /\ n >= ipp
    THEN [paginate |-> TRUE, total_pages |-> (n + ipp - 1) \div ipp, items_per_page |-> ipp]
    ELSE [paginate |-> FALSE, total_pages |-> 1, items_per_page |-> n]

Setup(pg, n, ipp) ==
  IF pg /\ n > ipp
    THEN [paginate |-> TRUE, total_pages |-> (n + ipp - 1) \div ipp, items_per_page |-> ipp]
    ELSE [paginate |-> FALSE, total_pages |-> 1, items_per_page |-> n]

(* ---- display_menu, lines 98-99: visible range ---- *)
StartIdx(page, ipp) == page * ipp
EndIdx(page, ipp, n) == Min(StartIdx(page, ipp) + ipp, n)

(* The controller state a key is dispatched against. *)
St == [sel |-> selected_index, page |-> current_page, paginate |-> paginate,
       ipp |-> items_per_page, n |-> total_items, pages |-> total_pages]

(* ---- display_menu, lines 113-119: Up arrow ---- *)
UpArrowNoFloor(s) ==
  IF s.sel >= StartIdx(s.page, s.ipp)
    THEN [sel |-> s.sel - 1, page |-> s.page]
    ELSE IF s.page > 0
      THEN [sel |-> Min(s.page * s.ipp - 1, s.n - 1), page |-> s.page - 1]
      ELSE [sel |-> s.sel, page |-> s.page]

UpArrowToPageTop(s) ==
  IF s.sel > StartIdx(s.page, s.ipp)
    THEN [sel |-> s.sel - 1, page |-> s.page]
    ELSE IF s.page > 0
      THEN [sel |-> (s.page - 1) * s.ipp, page |-> s.page - 1]
      ELSE [sel |-> s.sel, page |-> s.page]

UpArrow(s) ==
  IF s.sel > StartIdx(s.page, s.ipp)
    THEN [sel |-> s.sel - 1, page |-> s.page]
    ELSE IF s.page > 0
      THEN [sel |-> Min(s.page * s.ipp - 1, s.n - 1), page |-> s.page - 1]
      ELSE [sel |-> s.sel, page |-> s.page]

(* ---- display_menu, lines 120-126: Down arrow ---- *)
DownArrowStalePage(s) ==
  IF s.sel < s.n - 1
    THEN [sel |-> s.sel + 1, page |-> s.page]
    ELSE [sel |-> s.sel, page |-> s.page]

DownArrowWrap(s) ==
  IF s.sel < Min(EndIdx(s.page, s.ipp, s.n) - 1, s.n - 1)
    THEN [sel |-> s.sel + 1, page |-> s.page]
    ELSE IF s.page < s.pages - 1
      THEN [sel |-> (s.page + 1) * s.ipp, page |-> s.page + 1]
      ELSE [sel |-> 0, page |-> 0]

DownArrowLosesStep(s) ==
  IF s.sel < Min(EndIdx(s.page, s.ipp, s.n) - 1, s.n - 1)
    THEN [sel |-> s.sel + 1, page |-> s.page]
    ELSE IF s.page < s.pages - 1
      THEN [sel |-> s.sel, page |-> s.page + 1]
      ELSE [sel |-> s.sel, page |-> s.page]

DownArrow(s) ==
  IF s.sel < Min(EndIdx(s.page, s.ipp, s.n) - 1, s.n - 1)
    THEN [sel |-> s.sel + 1, page |-> s.page]
    ELSE IF s.page < s.pages - 1
      THEN [sel |-> (s.page + 1) * s.ipp, page |-> s.page + 1]
      ELSE [sel |-> s.sel, page |-> s.page]

(* ---- display_menu, lines 127-130: Page Up ---- *)
PageUpKey(s) ==
  IF s.paginate /\ s.page > 0
    THEN [sel |-> (s.page - 1) * s.ipp, page |-> s.page - 1]
    ELSE [sel |-> s.sel, page |-> s.page]

(* ---- display_menu, lines 131-134: Page Down ---- *)
PageDownKey(s) ==
  IF s.paginate /\ s.page < s.pages - 1
    THEN [sel |-> (s.page + 1) * s.ipp, page |-> s.page + 1]
    ELSE [sel |-> s.sel, page |-> s.page]

(* ---- display_menu, line 136: value returned on Enter ---- *)
EnterValueInPage(s) == s.sel - StartIdx(s.page, s.ipp)

EnterValue(s) == s.sel

(* ---- display_menu, lines 113-137: which branch a key string selects ---- *)
KeyEventQOnly(key) ==
  IF key = KeyUp THEN "Up"
  ELSE IF key = KeyDown THEN "Down"
  ELSE IF key = KeyPageUp THEN "PageUp"
  ELSE IF key = KeyPageDown THEN "PageDown"
  ELSE IF key = KeyCR \/ key = KeyLF THEN "Enter"
  ELSE IF key = KeyQ THEN "Quit"
  ELSE "Unrecognized"

KeyEvent(key) ==
  IF key = KeyUp THEN "Up"
  ELSE IF key = KeyDown THEN "Down"
  ELSE IF key = KeyPageUp THEN "PageUp"
  ELSE IF key = KeyPageDown THEN "PageDown"
  ELSE IF key = KeyCR \/ key = KeyLF THEN "Enter"
  ELSE IF key = KeyQ \/ key = KeyCtrlC THEN "Quit"
  ELSE "Unrecognized"

Stay(s) == [sel |-> s.sel, page |-> s.page]
Go(m, c, r) == [sel |-> m.sel, page |-> m.page, ctl |-> c, ret |-> r]

(* ---- display_menu, lines 113-140: the if/elif chain on key ---- *)
DispatchPrefix(key, s) ==
  IF key = KeyUp THEN Go(UpArrow(s), "continue", NoResult)
  ELSE IF key = KeyDown THEN Go(DownArrow(s), "continue", NoResult)
  ELSE IF key = SubSeq(KeyPageUp, 1, 3)
    THEN Go([sel |-> (s.page - 1) * s.ipp, page |-> s.page - 1], "continue", NoResult)
  ELSE IF key = SubSeq(KeyPageDown, 1, 3)
    THEN Go([sel |-> (s.page + 1) * s.ipp, page |-> s.page + 1], "continue", NoResult)
  ELSE IF key = KeyCR \/ key = KeyLF THEN Go(Stay(s), "return", EnterValue(s))
  ELSE IF key = KeyQ \/ key = KeyCtrlC THEN Go(Stay(s), "exit", NoResult)
  ELSE Go(Stay(s), "continue", NoResult)

DispatchElseExit(key, s) ==
  LET e == KeyEvent(key) IN
    CASE e = "Up" -> Go(UpArrow(s), "continue", NoResult)
      [] e = "Down" -> Go(DownArrow(s), "continue", NoResult)
      [] e = "PageUp" -> Go(PageUpKey(s), "continue", NoResult)
      [] e = "PageDown" -> Go(PageDownKey(s), "continue", NoResult)
      [] e = "Enter" -> Go(Stay(s), "return", EnterValue(s))
      [] OTHER -> Go(Stay(s), "exit", NoResult)

DispatchElseMoves(key, s) ==
  LET e == KeyEvent(key) IN
    CASE e = "Up" -> Go(UpArrow(s), "continue", NoResult)
      [] e = "Down" -> Go(DownArrow(s), "continue", NoResult)
      [] e = "PageUp" -> Go(PageUpKey(s), "continue", NoResult)
      [] e = "PageDown" -> Go(PageDownKey(s), "continue", NoResult)
      [] e = "Enter" -> Go(Stay(s), "return", EnterValue(s))
      [] e = "Quit" -> Go(Stay(s), "exit", NoResult)
      [] OTHER -> Go(DownArrow(s), "continue", NoResult)

Dispatch(key, s) ==
  LET e == KeyEvent(key) IN
    CASE e = "Up" -> Go(UpArrow(s), "continue", NoResult)
      [] e = "Down" -> Go(DownArrow(s), "continue", NoResult)
      [] e = "PageUp" -> Go(PageUpKey(s), "continue", NoResult)
      [] e = "PageDown" -> Go(PageDownKey(s), "continue", NoResult)
      [] e = "Enter" -> Go(Stay(s), "return", EnterValue(s))
      [] e = "Quit" -> Go(Stay(s), "exit", NoResult)
      [] OTHER -> Go(Stay(s), "continue", NoResult)

(* ---- get_key, lines 51-52: characters read after the first one ---- *)
ExtraCharsOne(b) == IF b = ESC THEN 1 ELSE 0

ExtraChars(b) == IF b = ESC THEN 2 ELSE 0

(* ---- get_key, lines 55-56: terminal mode on leaving the try block ---- *)
FinallyOnReturnOnly(old, cur, how) == IF how = "return" THEN old ELSE cur

Finally(old, cur, how) == old

Init ==
  /\ pc = "caller"
  /\ argPaginate = FALSE /\ argPerPage = 1
  /\ total_items = 1 /\ paginate = FALSE /\ total_pages = 1 /\ items_per_page = 1
  /\ selected_index = 0 /\ current_page = 0
  /\ stream = <<>> /\ closed = FALSE
  /\ term \in {"cooked", "cbreak"}
  /\ old_settings = term
  /\ lastKey = NoKey /\ firstTag = NoTag
  /\ prev = [sel |-> 0, page |-> 0]
  /\ result = NoResult /\ exit = "none"
  /\ script = <<>>

(* The bytes of key k are queued on stdin. *)
Enqueue(k) ==
  /\ pc # "exited" /\ ~closed
  /\ Cardinality({j \in DOMAIN stream : stream[j].i = 1}) < MaxPending
  /\ stream' = stream \o [j \in 1..Len(Bytes(k)) |-> [b |-> Bytes(k)[j], k |-> k, i |-> j]]
  /\ UNCHANGED <<pc, argPaginate, argPerPage, total_items, paginate, total_pages,
                 items_per_page, selected_index, current_page, closed, term,
                 old_settings, lastKey, firstTag, prev, result, exit>>

(* A key is pressed on the terminal. *)
Press(k) == Enqueue(k) /\ UNCHANGED script

(* The terminal input reaches end of input (hang-up). *)
CloseInput ==
  /\ pc # "exited" /\ ~closed
  /\ closed' = TRUE
  /\ UNCHANGED <<pc, argPaginate, argPerPage, total_items, paginate, total_pages,
                 items_per_page, selected_index, current_page, stream, term,
                 old_settings, lastKey, firstTag, prev, result, exit, script>>

DisplayMenuKeepsSelection(n, pg, ipp) ==
  /\ pc = "caller"
  /\ LET e == Setup(pg, n, ipp) IN
       /\ paginate' = e.paginate
       /\ total_pages' = e.total_pages
       /\ items_per_page' = e.items_per_page
  /\ argPaginate' = pg /\ argPerPage' = ipp
  /\ total_items' = n
  /\ current_page' = 0
  /\ script' = <<>>
  /\ lastKey' = NoKey /\ firstTag' = NoTag
  /\ prev' = [sel |-> 0, page |-> 0]
  /\ pc' = "loop"
  /\ UNCHANGED <<selected_index, stream, closed, term, old_settings, result, exit>>

(* display_menu is called: lines 62-74. *)
DisplayMenu(n, pg, ipp) ==
  /\ pc = "caller"
  /\ LET e == Setup(pg, n, ipp) IN
       /\ paginate' = e.paginate
       /\ total_pages' = e.total_pages
       /\ items_per_page' = e.items_per_page
  /\ argPaginate' = pg /\ argPerPage' = ipp
  /\ total_items' = n
  /\ selected_index' = 0 /\ current_page' = 0
  /\ script' = <<>>
  /\ lastKey' = NoKey /\ firstTag' = NoTag
  /\ prev' = [sel |-> 0, page |-> 0]
  /\ pc' = "loop"
  /\ UNCHANGED <<stream, closed, term, old_settings, result, exit>>

(* One loop iteration up to the blocking read: render (lines 77-108), then *)
(* get_key saves the terminal mode and sets raw mode (lines 44-47).        *)
RenderAndEnterGetKey ==
  /\ pc = "loop"
  /\ old_settings' = term
  /\ term' = "raw"
  /\ pc' = "read1"
  /\ UNCHANGED <<argPaginate, argPerPage, total_items, paginate, total_pages,
                 items_per_page, selected_index, current_page, stream, closed,
                 lastKey, firstTag, prev, result, exit, script>>

(* get_key returns key (lines 54-56) and display_menu dispatches it       *)
(* (lines 113-140).                                                        *)
ReturnKey(key, tag) ==
  LET d == Dispatch(key, St) IN
    /\ term' = Finally(old_settings, term, "return")
    /\ lastKey' = key /\ firstTag' = tag
    /\ prev' = [sel |-> selected_index, page |-> current_page]
    /\ selected_index' = d.sel /\ current_page' = d.page
    /\ pc' = CASE d.ctl = "return" -> "caller"
               [] d.ctl = "exit" -> "exited"
               [] OTHER -> "loop"
    /\ result' = d.ret
    /\ exit' = IF d.ctl = "exit" THEN "quit" ELSE exit
    /\ UNCHANGED <<argPaginate, argPerPage, total_items, paginate, total_pages,
                   items_per_page, closed, old_settings, script>>

(* sys.stdin.read(1), line 48. *)
Read1 ==
  /\ pc = "read1"
  /\ \/ /\ stream # <<>>
        /\ stream' = Tail(stream)
        /\ LET h == Head(stream) IN
             IF ExtraChars(h.b) > 0
               THEN /\ pc' = "read2"
                    /\ firstTag' = [k |-> h.k, i |-> h.i]
                    /\ UNCHANGED <<argPaginate, argPerPage, total_items, paginate,
                                   total_pages, items_per_page, selected_index,
                                   current_page, closed, term, old_settings,
                                   lastKey, prev, result, exit, script>>
               ELSE ReturnKey(<<h.b>>, [k |-> h.k, i |-> h.i])
     \/ /\ stream = <<>> /\ closed
        /\ stream' = stream
        /\ ReturnKey(<<>>, NoTag)

(* sys.stdin.read(2), line 52: blocks for two characters or end of input. *)
Read2 ==
  /\ pc = "read2"
  /\ Len(stream) >= ExtraChars(ESC) \/ closed
  /\ LET m == Min(ExtraChars(ESC), Len(stream)) IN
       /\ stream' = SubSeq(stream, m + 1, Len(stream))
       /\ ReturnKey(<<ESC>> \o [j \in 1..m |-> stream[j].b], firstTag)

(* The read raises: KeyboardInterrupt from a signal, or an OS error.  The  *)
(* finally clause runs and the exception unwinds to main (lines 465-473).  *)
ReadRaises(kind) ==
  /\ pc \in {"read1", "read2"}
  /\ term' = Finally(old_settings, term, "raise")
  /\ pc' = "exited"
  /\ exit' = kind
  /\ UNCHANGED <<argPaginate, argPerPage, total_items, paginate, total_pages,
                 items_per_page, selected_index, current_page, stream, closed,
                 old_settings, lastKey, firstTag, prev, result, script>>

ReadInterrupt == ReadRaises("interrupt")
ReadError == ReadRaises("error")

Next ==
  \/ \E k \in PhysKeys : Press(k)
  \/ CloseInput
  \/ \E n \in 1..MaxItems, pg \in BOOLEAN, ipp \in 1..MaxPerPage : DisplayMenu(n, pg, ipp)
  \/ RenderAndEnterGetKey
  \/ Read1
  \/ Read2
  \/ ReadInterrupt
  \/ ReadError

Spec == Init /\ [][Next]_vars

(* ---- scripted runs: the same program, with the keys typed in a fixed  *)
(* order and recorded in script ---- *)

(* run(), lines 421-427: a list of 25 conversations is shown 10 per page. *)
ScenarioMenu ==
  /\ script = <<>> /\ result = NoResult
  /\ DisplayMenu(25, 25 > 10, 10)

(* Ten Down keys, one PageDown key, one Up key. *)
Scenario == [j \in 1..12 |-> IF j <= 10 THEN "down" ELSE IF j = 11 THEN "pgdn" ELSE "up"]

ScenarioPress ==
  /\ pc \in {"loop", "read1", "read2"}
  /\ Len(script) < Len(Scenario)
  /\ Enqueue(Scenario[Len(script) + 1])
  /\ script' = Append(script, Scenario[Len(script) + 1])

NextScenario ==
  \/ ScenarioMenu
  \/ ScenarioPress
  \/ CloseInput
  \/ RenderAndEnterGetKey
  \/ Read1
  \/ Read2
  \/ ReadInterrupt
  \/ ReadError

SpecScenario == Init /\ [][NextScenario]_vars

(* Down keys followed by one Enter key. *)
PressDownKey ==
  /\ pc \in {"loop", "read1", "read2"}
  /\ Len(script) < MaxItems
  /\ \A j \in DOMAIN script : script[j] = "down"
  /\ Enqueue("down")
  /\ script' = Append(script, "down")

PressEnterKey ==
  /\ pc \in {"loop", "read1", "read2"}
  /\ \A j \in DOMAIN script : script[j] = "down"
  /\ Enqueue("cr")
  /\ script' = Append(script, "cr")

NextDowns ==
  \/ \E n \in 1..MaxItems, pg \in BOOLEAN, ipp \in 1..MaxPerPage : DisplayMenu(n, pg, ipp)
  \/ PressDownKey
  \/ PressEnterKey
  \/ CloseInput
  \/ RenderAndEnterGetKey
  \/ Read1
  \/ Read2
  \/ ReadInterrupt
  \/ ReadError

SpecDowns == Init /\ [][NextDowns]_vars

TypeOK ==
  /\ pc \in {"caller", "loop", "read1", "read2", "exited"}
  /\ term \in {"cooked", "cbreak", "raw"}
  /\ exit \in {"none", "quit", "interrupt", "error"}
  /\ closed \in BOOLEAN

(* ---- vocabulary of the properties ---- *)

(* get_key has returned lastKey; firstTag names the key press whose byte  *)
(* the call read first, and prev is the selection it was dispatched on.   *)
Delivered == lastKey # NoKey /\ pc # "read2" /\ exit \in {"none", "quit"}

(* The call read the bytes of key press k, starting at its first byte. *)
DeliveredKey(k) == Delivered /\ firstTag = [k |-> k, i |-> 1]

(* The call read bytes of key press k (its head or its tail). *)
DeliveredPartOf(k) == Delivered /\ firstTag.k = k

Unmoved == selected_index = prev.sel /\ current_page = prev.page

CeilDiv(a, b) == CHOOSE q \in 0..a : q * b >= a /\ (q - 1) * b < a

(* The event each key press stands for in the key mapping of the menu. *)
MappedEvent(k) ==
  CASE k \in {"up"} -> "Up"
    [] k \in {"down"} -> "Down"
    [] k \in {"pgup"} -> "PageUp"
    [] k \in {"pgdn"} -> "PageDown"
    [] k \in {"cr", "lf"} -> "Enter"
    [] k \in {"q", "ctrlc"} -> "Quit"
    [] OTHER -> "Unrecognized"

(* C1: the selected index always lies in 0..total_items-1, an Up key      *)
(* never moves the selection to a larger index and a Down key never moves *)
(* it to a smaller one (no wrap-around at either end).                     *)
C1_SelectedInRange ==
  /\ 0 <= selected_index /\ selected_index <= total_items - 1
  /\ DeliveredKey("up") => selected_index <= prev.sel
  /\ DeliveredKey("down") => selected_index >= prev.sel

(* C1 witness: Down was handled at the last index of a paginated list. *)
C1_Witness ==
  /\ total_items > 1 /\ paginate
  /\ DeliveredKey("down") /\ prev.sel = total_items - 1
  /\ selected_index = total_items - 1

(* C2: current_page lies in 0..total_pages-1, total_pages is the ceiling  *)
(* of total_items / items_per_page, and the selected index lies in the    *)
(* range of items rendered for current_page.                               *)
C2_SelectionOnCurrentPage ==
  /\ 0 <= current_page /\ current_page < total_pages
  /\ total_pages = CeilDiv(total_items, items_per_page)
  /\ StartIdx(current_page, items_per_page) <= selected_index
  /\ selected_index < EndIdx(current_page, items_per_page, total_items)

(* C2 witness: a Down key crossed from one page onto the next. *)
C2_Witness ==
  /\ DeliveredKey("down") /\ paginate
  /\ current_page = prev.page + 1 /\ current_page > 0

(* C3: when get_key yields "\r" or "\n" the menu returns on that          *)
(* iteration, the value returned is the index selected at that moment,    *)
(* and it is a valid index of the list.                                    *)
C3_EnterReturnsSelection ==
  (Delivered /\ lastKey \in {KeyCR, KeyLF}) =>
    /\ pc = "caller" /\ exit = "none"
    /\ result = prev.sel /\ result = selected_index
    /\ 0 <= result /\ result < total_items

(* C3 witness: Enter was pressed after navigating onto a later page. *)
C3_Witness ==
  /\ Delivered /\ lastKey = KeyCR /\ pc = "caller"
  /\ current_page > 0 /\ result > StartIdx(current_page, items_per_page)

(* C4: when get_key yields "q" or "\x03" the menu ends the process with   *)
(* no selection returned, and the terminal is back in its pre-call mode.  *)
C4_QuitTerminates ==
  (Delivered /\ lastKey \in {KeyQ, KeyCtrlC}) =>
    /\ pc = "exited" /\ exit = "quit"
    /\ result = NoResult
    /\ term # "raw" /\ term = old_settings

(* C4 witness: the interrupt byte was read after the selection had moved. *)
C4_Witness ==
  /\ Delivered /\ lastKey = KeyCtrlC /\ pc = "exited"
  /\ selected_index > 0

(* C5: the terminal is in raw mode only while get_key is reading; on      *)
(* every way out of get_key, return or exception, the mode captured at    *)
(* entry is in force again.                                                *)
C5_RawOnlyInsideGetKey ==
  /\ term = "raw" => pc \in {"read1", "read2"}
  /\ pc \notin {"read1", "read2"} => term = old_settings

(* C5 witness: an interrupt raised during the second read unwound through *)
(* get_key.                                                                *)
C5_Witness ==
  /\ pc = "exited" /\ exit = "interrupt"
  /\ firstTag.k = "up" /\ lastKey = NoKey
  /\ term = "cbreak"

(* C6: the bytes of each key press, read by get_key and dispatched by     *)
(* display_menu, select the branch of the event the key stands for; in    *)
(* particular ESC[5~ and ESC[6~ select the page branches.                 *)
C6_KeyMapping ==
  \A k \in PhysKeys : DeliveredKey(k) => KeyEvent(lastKey) = MappedEvent(k)

(* C7: when the read hits end of input or fails, the menu invocation ends *)
(* as a Quit: the process leaves the loop with no selection.               *)
C7_InputUnavailableQuits ==
  LET short == /\ Delivered
               /\ \/ lastKey = <<>>
                  \/ lastKey # <<>> /\ lastKey[1] = ESC /\ Len(lastKey) < 3
  IN (short \/ exit = "error") =>
       /\ pc = "exited" /\ exit = "quit"
       /\ result = NoResult

(* C8: when total_items <= items_per_page pagination is off even if       *)
(* requested, items_per_page becomes total_items, there is one page,      *)
(* current_page stays 0, every item is rendered and PageDown is a no-op.  *)
C8_SmallListNotPaginated ==
  total_items <= argPerPage =>
    /\ ~paginate
    /\ items_per_page = total_items
    /\ total_pages = 1
    /\ current_page = 0
    /\ StartIdx(current_page, items_per_page) = 0
    /\ EndIdx(current_page, items_per_page, total_items) = total_items
    /\ (DeliveredPartOf("pgdn") \/ (Delivered /\ KeyEvent(lastKey) = "PageDown"))
         => Unmoved

(* C8 witness: pagination was requested for a list shorter than a page    *)
(* and the PageDown key was read to its last byte.                         *)
C8_Witness ==
  /\ argPaginate /\ total_items < argPerPage /\ total_items > 1
  /\ Delivered /\ firstTag = [k |-> "pgdn", i |-> 4]

(* C9: PageUp leaves selected_index and current_page unchanged when       *)
(* pagination is off or current_page is 0, and PageDown leaves them       *)
(* unchanged when pagination is off or current_page is the last page.     *)
C9_PageKeysNoOpAtEnds ==
  /\ ((DeliveredPartOf("pgup") \/ (Delivered /\ KeyEvent(lastKey) = "PageUp"))
        /\ (~paginate \/ prev.page = 0)) => Unmoved
  /\ ((DeliveredPartOf("pgdn") \/ (Delivered /\ KeyEvent(lastKey) = "PageDown"))
        /\ (~paginate \/ prev.page = total_pages - 1)) => Unmoved

(* C9 witness: PageDown was read on the last page of a paginated list. *)
C9_Witness ==
  /\ paginate
  /\ DeliveredKey("pgdn") /\ prev.page = total_pages - 1 /\ prev.page > 0

(* C10: with pagination in effect, a PageDown key below the last page     *)
(* moves to the first index of the next page and a PageUp key above the   *)
(* first page moves to the first index of the previous page.               *)
C10_PageKeysMove ==
  /\ (DeliveredKey("pgdn") /\ paginate /\ prev.page < total_pages - 1) =>
       /\ current_page = prev.page + 1
       /\ selected_index = StartIdx(current_page, items_per_page)
  /\ (DeliveredKey("pgup") /\ paginate /\ prev.page > 0) =>
       /\ current_page = prev.page - 1
       /\ selected_index = StartIdx(current_page, items_per_page)
(* The first j keys of the script have been read and dispatched and the   *)
(* menu waits for the next key.                                            *)
AfterKeys(j) ==
  /\ Len(script) = j /\ stream = <<>>
  /\ pc \in {"loop", "read1"} /\ exit = "none"
  /\ lastKey # <<>>

(* C11: 25 items at 10 per page make 3 pages of 10, 10 and 5 items; nine  *)
(* Down keys give index 9 on page 0, a tenth gives index 10 on page 1, a  *)
(* PageDown then gives index 20 on page 2 and an Up then index 19 on      *)
(* page 1.                                                                 *)
C11_Scenario ==
  pc # "caller" =>
    /\ total_pages = 3
    /\ \A p \in 0..2 :
         EndIdx(p, items_per_page, total_items) - StartIdx(p, items_per_page)
           = IF p < 2 THEN 10 ELSE 5
    /\ AfterKeys(9) => selected_index = 9 /\ current_page = 0
    /\ AfterKeys(10) => selected_index = 10 /\ current_page = 1
    /\ AfterKeys(11) => selected_index = 20 /\ current_page = 2
    /\ AfterKeys(12) => selected_index = 19 /\ current_page = 1
(* C12: Up at the first index of a page p > 0 moves to the last index of *)
(* page p-1, Down at the last index of a page p < total_pages-1 moves to  *)
(* the first index of page p+1, and inside a page Up and Down change the  *)
(* index by exactly 1 and keep the page.                                   *)
C12_ArrowsAcrossPages ==
  LET ps == StartIdx(prev.page, items_per_page)
      pe == EndIdx(prev.page, items_per_page, total_items)
  IN
  /\ (DeliveredKey("up") /\ prev.sel = ps /\ prev.page > 0) =>
       /\ current_page = prev.page - 1
       /\ selected_index = EndIdx(current_page, items_per_page, total_items) - 1
  /\ (DeliveredKey("up") /\ prev.sel > ps) =>
       /\ current_page = prev.page
       /\ selected_index = prev.sel - 1
  /\ (DeliveredKey("down") /\ prev.sel = pe - 1 /\ prev.page < total_pages - 1) =>
       /\ current_page = prev.page + 1
       /\ selected_index = StartIdx(current_page, items_per_page)
  /\ (DeliveredKey("down") /\ prev.sel < pe - 1) =>
       /\ current_page = prev.page
       /\ selected_index = prev.sel + 1

(* C12 witness: Up was handled at the first index of a later page. *)
C12_Witness ==
  /\ DeliveredKey("up") /\ prev.page > 0
  /\ prev.sel = StartIdx(prev.page, items_per_page)
  /\ items_per_page > 1

(* C13: Up at index 0 on page 0 and Down at the last item on the last     *)
(* page leave selected_index and current_page as they were, however often *)
(* they are repeated.                                                      *)
C13_ArrowsIdempotentAtEnds ==
  /\ (DeliveredKey("up") /\ prev.sel = 0 /\ prev.page = 0) => Unmoved
  /\ (DeliveredKey("down") /\ prev.sel = total_items - 1
        /\ prev.page = total_pages - 1) => Unmoved

(* C13 witness: Up was handled at index 0 of a list of several items with *)
(* another Up already queued behind it.                                    *)
C13_Witness ==
  /\ DeliveredKey("up") /\ prev.sel = 0 /\ prev.page = 0
  /\ total_items > 1
  /\ stream # <<>> /\ Head(stream).k = "up"
Running == pc \in {"loop", "read1", "read2"}

(* A key has been dispatched in the current invocation and no exception   *)
(* has unwound since.                                                      *)
Dispatched == lastKey # NoKey /\ exit \in {"none", "quit"}

C15_UnrecognizedIgnored ==
  (Delivered /\ KeyEvent(lastKey) = "Unrecognized") =>
    /\ Unmoved
    /\ exit = "none"
    /\ pc \in {"loop", "read1"}

(* C15 witness: an unrecognized escape sequence was dispatched with the   *)
(* selection away from index 0, and the next read has begun.               *)
C15_Witness ==
  /\ Delivered /\ lastKey = <<27, 91, 53>>
  /\ selected_index > 0 /\ pc = "read1"
(* C16: every get_key call reads exactly the bytes of one key press (1,  *)
(* 3 or 4 bytes), so each call starts at the first byte of a key press    *)
(* and no tail of a sequence is returned as a key of its own.              *)
C16_OneKeyPerCall ==
  (Delivered /\ firstTag # NoTag) =>
    /\ firstTag.i = 1
    /\ lastKey = Bytes(firstTag.k)

C18_FreshStatePerInvocation ==
  (Running /\ lastKey = NoKey) => (selected_index = 0 /\ current_page = 0)

(* C18 witness: a new invocation on a shorter list has started after an   *)
(* earlier one returned an index that the new list does not have.          *)
C18_Witness ==
  /\ Running /\ lastKey = NoKey
  /\ result > 0 /\ result >= total_items

(* C19: when a Down key has moved the selection, an Up key handled next   *)
(* would restore the index and page it moved from, and when an Up key has *)
(* moved it, a Down key handled next would restore them.                   *)
C19_UpDownInverse ==
  /\ (DeliveredKey("down") /\ ~Unmoved) => UpArrow(St) = prev
  /\ (DeliveredKey("up") /\ ~Unmoved) => DownArrow(St) = prev

(* C19 witness: Down moved from a full page onto a short last page. *)
C19_Witness ==
  /\ DeliveredKey("down") /\ paginate
  /\ current_page = total_pages - 1 /\ prev.page = current_page - 1
  /\ total_items - StartIdx(current_page, items_per_page) < items_per_page

(* C20: Down pressed i times and then Enter, from the start of an         *)
(* invocation on n items with i <= n-1, makes display_menu return i.       *)
C20_DownsThenEnter ==
  (Delivered /\ lastKey = KeyCR /\ pc = "caller"
     /\ script # <<>> /\ Len(script) - 1 <= total_items - 1) =>
    result = Len(script) - 1

(* C20 witness: three Downs and Enter returned index 3 from a later page. *)
C20_Witness ==
  /\ Delivered /\ lastKey = KeyCR /\ pc = "caller"
  /\ script = <<"down", "down", "down", "cr">>
  /\ result = 3 /\ paginate /\ current_page > 0
====
